---- MODULE Spec2Model ----
(***************************************************************************)
(* A model of src/app.ts: the tic-tac-toe / gomoku console game.           *)
(*                                                                         *)
(* Strings the code inspects character by character (the raw input line,   *)
(* the concatenated gameboard) are sequences of one-character strings.     *)
(* A Gameboard is a sequence of rows, a row a sequence of cells; the code  *)
(* indexes from 0, TLA+ sequences from 1, so the code's gameboard[r][c] is *)
(* gameboard[r + 1][c + 1] here.  The empty cell is the empty string.      *)
(***************************************************************************)
EXTENDS Integers, Sequences, FiniteSets, TLC

VARIABLES
    pc,          \* which rl.question callback is pending: "type", "input", "replay", "closed"
                 \* ("create" and "board" where the functions are called on their own)
    game,        \* the Game object the pending promptForInput callback closes over
    message,     \* the value of `message` in the last promptForInput callback that accepted a move
    inputError,  \* the value of `inputError` in the last promptForInput callback
    moves        \* history: number of moves accepted in the current game

vars == <<pc, game, message, inputError, moves>>

-----------------------------------------------------------------------------
(* Program constants.                                                      *)

TIC_TAC_TOE == "tic-tac-toe"
GOMOKU == "gomoku"

ROW_BREAK == "B"
EMPTY_CELL_MARK == "E"

MalformedError == "Invalid input. A valid input should look like this x,y."
OutOfBoundError == "Input out of bound"
CellTakenError == "This cell has already been placed"
TiedMessage == "The game is tied!"

TicTacToeSize == 3
TicTacToeWinCase == 3
GomokuSize == 10
GomokuWinCase == 5

-----------------------------------------------------------------------------
(* Bounds of the model.                                                    *)

\* In gomoku, X plays the cells (0, 0) .. (0, GomokuCols - 1).
GomokuCols == 6
\* Largest board size of the board harness (SpecBoards).
MaxSize == 3
\* Largest number of marks the board harness puts on a board.
MaxMarks == 3

-----------------------------------------------------------------------------
(* initGame, initGameboard, initPlayers.                                   *)

initGameboard(size) == [i \in 1..size |-> [j \in 1..size |-> ""]]

initPlayers == << [name |-> "X", totalWins |-> 0], [name |-> "O", totalWins |-> 0] >>

\* The Game object for a board size and a win case.
newGame(gameType, gameboardSize, winCase) ==
    [ type |-> gameType,
      players |-> initPlayers,
      gameboard |-> initGameboard(gameboardSize),
      turn |-> 0,
      winCase |-> winCase,
      remainingEmptyCells |-> gameboardSize * gameboardSize ]

initGame(gameType) ==
    IF gameType = TIC_TAC_TOE
      THEN newGame(gameType, TicTacToeSize, TicTacToeWinCase)
      ELSE newGame(gameType, GomokuSize, GomokuWinCase)

\* `let game = null` before a game type is chosen.
NullGame ==
    [ type |-> "", players |-> <<>>, gameboard |-> <<>>, turn |-> 0,
      winCase |-> 0, remainingEmptyCells |-> 0 ]

-----------------------------------------------------------------------------
(* convertRawInputToInput: /^\s*\d+,\s*\d+\s*$/, split(','), trim, parseInt *)

Digits == {"0", "1", "2", "3", "4", "5", "6", "7", "8", "9"}
Whitespace == {" ", "\t"}

DigitValue(ch) ==
    CASE ch = "0" -> 0 [] ch = "1" -> 1 [] ch = "2" -> 2 [] ch = "3" -> 3
      [] ch = "4" -> 4 [] ch = "5" -> 5 [] ch = "6" -> 6 [] ch = "7" -> 7
      [] ch = "8" -> 8 [] ch = "9" -> 9

\* The first position >= p of s whose character is not in class (Len(s) + 1 if none).
RECURSIVE SkipClass(_, _, _)
SkipClass(s, p, class) ==
    IF p <= Len(s) /\ s[p] \in class THEN SkipClass(s, p + 1, class) ELSE p

\* regexp.test(rawInput).  The character classes \s, \d and ',' are disjoint,
\* so the greedy left-to-right match is the only possible one.
RegexpTest(rawInput) ==
    LET p1 == SkipClass(rawInput, 1, Whitespace)
        p2 == SkipClass(rawInput, p1, Digits)
        p3 == SkipClass(rawInput, p2 + 1, Whitespace)
        p4 == SkipClass(rawInput, p3, Digits)
        p5 == SkipClass(rawInput, p4, Whitespace)
    IN  /\ p2 > p1
        /\ p2 <= Len(rawInput)
        /\ rawInput[p2] = ","
        /\ p4 > p3
        /\ p5 = Len(rawInput) + 1

\* String.prototype.trim
RECURSIVE TrimLeft(_)
TrimLeft(s) == IF s # <<>> /\ Head(s) \in Whitespace THEN TrimLeft(Tail(s)) ELSE s
RECURSIVE TrimRight(_)
TrimRight(s) ==
    IF s # <<>> /\ s[Len(s)] \in Whitespace
      THEN TrimRight(SubSeq(s, 1, Len(s) - 1))
      ELSE s
Trim(s) == TrimRight(TrimLeft(s))

\* The position of the first ',' of s at or after p (Len(s) + 1 if none).
RECURSIVE IndexOfComma(_, _)
IndexOfComma(s, p) ==
    IF p <= Len(s) /\ s[p] # "," THEN IndexOfComma(s, p + 1) ELSE p

\* parseInt of a string of decimal digits.
RECURSIVE ParseInt(_)
ParseInt(s) ==
    IF s = <<>> THEN 0
    ELSE 10 * ParseInt(SubSeq(s, 1, Len(s) - 1)) + DigitValue(s[Len(s)])

\* The body of convertRawInputToInput: [input, convertingError]; input is null
\* exactly when the error is set.
convertLine(rawInput) ==
    IF ~RegexpTest(rawInput)
      THEN [input |-> [row |-> -1, col |-> -1], isNull |-> TRUE, error |-> MalformedError]
      ELSE LET trimmed == Trim(rawInput)
               comma == IndexOfComma(trimmed, 1)
               rowStr == SubSeq(trimmed, 1, comma - 1)
               colStr == SubSeq(trimmed, comma + 1, Len(trimmed))
           IN  [ input |-> [row |-> ParseInt(Trim(rowStr)), col |-> ParseInt(Trim(colStr))],
                 isNull |-> FALSE,
                 error |-> "" ]

-----------------------------------------------------------------------------
(* The lines the players can type.                                         *)

\* The decimal numeral of n, 0 <= n <= 99.
Numeral(n) ==
    LET digit(d) == CHOOSE ch \in Digits : DigitValue(ch) = d
    IN  IF n < 10 THEN <<digit(n)>> ELSE <<digit(n \div 10), digit(n % 10)>>

\* "row,col"
MoveLine(row, col) == Numeral(row) \o <<",">> \o Numeral(col)

\* The cells the player at the turn index plays.  In tic-tac-toe both players
\* play every cell.  In gomoku X plays the first GomokuCols cells of the top
\* row; O plays the first GomokuWinCase cells of the second row and the cell
\* of the top row that ends X's leftmost run.
TargetCells(gameType, turn) ==
    IF gameType = TIC_TAC_TOE
      THEN (0..(TicTacToeSize - 1)) \X (0..(TicTacToeSize - 1))
      ELSE IF turn = 0
             THEN {0} \X (0..(GomokuCols - 1))
             ELSE ({1} \X (0..(GomokuWinCase - 1))) \cup {<<0, GomokuWinCase - 1>>}

\* The cells either player plays.
PlayedCells(gameType) == TargetCells(gameType, 0) \cup TargetCells(gameType, 1)

\* The line typed to play a cell.  Three cells are typed in the other forms
\* the pattern admits: with a leading tab, padded with blanks, with leading zeros.
CellLine(row, col) ==
    CASE row = 0 /\ col = 0 -> <<"\t">> \o MoveLine(0, 0)
      [] row = 0 /\ col = 1 -> <<" ", "0", ",", " ", "1", " ">>
      [] row = 0 /\ col = 2 -> <<"0", "0", ",", "0", "2">>
      [] OTHER -> MoveLine(row, col)

\* Lines that play no cell of a board of the given size: not of the form
\* "row,col", signed, and past the board's edge.
OtherLines(size) ==
    { <<"a", "b", "c">>,
      <<>>,
      <<"0", " ", ",", "1">>,
      <<"0", ",", "1", ",", "2">>,
      <<"-", "1", ",", "0">>,
      MoveLine(size, 0),
      MoveLine(0, size) }

CellLines(gameType, turn) ==
    {CellLine(cell[1], cell[2]) : cell \in TargetCells(gameType, turn)}

\* The lines typed in each game, by the player at each turn index.
TicTacToeLines == CellLines(TIC_TAC_TOE, 0) \cup OtherLines(TicTacToeSize)
GomokuLines ==
    [turn \in {0, 1} |-> CellLines(GOMOKU, turn) \cup OtherLines(GomokuSize)]

RawInputs(g) == IF g.type = TIC_TAC_TOE THEN TicTacToeLines ELSE GomokuLines[g.turn]

\* convertRawInputToInput is a function of the line alone: its results for the
\* lines above are computed once.
ConvertedLines ==
    [rawInput \in TicTacToeLines \cup GomokuLines[0] \cup GomokuLines[1] |->
        convertLine(rawInput)]

convertRawInputToInput(rawInput) ==
    IF rawInput \in DOMAIN ConvertedLines
      THEN ConvertedLines[rawInput]
      ELSE convertLine(rawInput)

-----------------------------------------------------------------------------
(* validateInputOutOfBound, validateEmptyCell, validateInput.              *)

\* validateInputOutOfBound taking the size for the largest index.
validateInputOutOfBoundBySize(input, gameboard) ==
    LET bound == Len(gameboard)
    IN  IF input.row > bound \/ input.col > bound \/ input.row < 0 \/ input.col < 0
          THEN OutOfBoundError
          ELSE ""

validateInputOutOfBound(input, gameboard) ==
    LET bound == Len(gameboard) - 1
    IN  IF input.row > bound \/ input.col > bound \/ input.row < 0 \/ input.col < 0
          THEN OutOfBoundError
          ELSE ""

\* gameboard[input.row][input.col] as JavaScript evaluates it: a row index
\* outside the array makes gameboard[row] undefined and the second index
\* throws a TypeError; a column index outside the row reads undefined, which
\* is falsy like the empty cell.
validateEmptyCell(input, gameboard) ==
    IF input.row < 0 \/ input.row >= Len(gameboard)
      THEN "TypeError"
      ELSE IF input.col < 0 \/ input.col >= Len(gameboard[input.row + 1])
             THEN ""
             ELSE IF gameboard[input.row + 1][input.col + 1] = ""
                    THEN ""
                    ELSE CellTakenError

\* validateInput looking at the cell before the bounds.
validateInputCellFirst(rawInput, gameboard) ==
    LET converted == convertRawInputToInput(rawInput)
    IN  IF converted.isNull \/ converted.error # ""
          THEN [input |-> converted.input, isNull |-> TRUE,
                error |-> converted.error, reads |-> {}]
          ELSE LET cellError == validateEmptyCell(converted.input, gameboard)
               IN  [input |-> converted.input, isNull |-> FALSE,
                    error |-> IF cellError # ""
                                THEN cellError
                                ELSE validateInputOutOfBound(converted.input, gameboard),
                    reads |-> {<<converted.input.row, converted.input.col>>}]

\* [input, error], with two observations of the call added: isNull (the first
\* component is null) and reads (the board coordinates validateEmptyCell read).
validateInput(rawInput, gameboard) ==
    LET converted == convertRawInputToInput(rawInput)
    IN  IF converted.isNull \/ converted.error # ""
          THEN [input |-> converted.input, isNull |-> TRUE,
                error |-> converted.error, reads |-> {}]
          ELSE LET inputOutOfBounderror ==
                       validateInputOutOfBound(converted.input, gameboard)
               IN  IF inputOutOfBounderror # ""
                     THEN [input |-> converted.input, isNull |-> FALSE,
                           error |-> inputOutOfBounderror, reads |-> {}]
                     ELSE [input |-> converted.input, isNull |-> FALSE,
                           error |-> validateEmptyCell(converted.input, gameboard),
                           reads |-> {<<converted.input.row, converted.input.col>>}]

-----------------------------------------------------------------------------
(* updateGame.                                                             *)

\* updateGame forgetting to count the cell.
updateGameKeepCount(input, g) ==
    [g EXCEPT !.gameboard[input.row + 1][input.col + 1] = g.players[g.turn + 1].name,
              !.turn = IF g.turn = 0 THEN 1 ELSE 0]

\* updateGame handing the turn over only after the first player's move.
updateGameTurnStuck(input, g) ==
    [g EXCEPT !.gameboard[input.row + 1][input.col + 1] = g.players[g.turn + 1].name,
              !.remainingEmptyCells = g.remainingEmptyCells - 1,
              !.turn = IF g.turn = 0 THEN 1 ELSE 1]

\* updateGame indexing the gameboard by the column first.
updateGameColumnFirst(input, g) ==
    [g EXCEPT !.gameboard[input.col + 1][input.row + 1] = g.players[g.turn + 1].name,
              !.remainingEmptyCells = g.remainingEmptyCells - 1,
              !.turn = IF g.turn = 0 THEN 1 ELSE 0]

\* updateGame changing the turn before it places the cell.
updateGameTurnFirst(input, g) ==
    LET turn == IF g.turn = 0 THEN 1 ELSE 0
    IN  [g EXCEPT !.gameboard[input.row + 1][input.col + 1] = g.players[turn + 1].name,
                  !.remainingEmptyCells = g.remainingEmptyCells - 1,
                  !.turn = turn]

updateGame(input, g) ==
    [g EXCEPT !.gameboard[input.row + 1][input.col + 1] = g.players[g.turn + 1].name,
              !.remainingEmptyCells = g.remainingEmptyCells - 1,
              !.turn = IF g.turn = 0 THEN 1 ELSE 0]

-----------------------------------------------------------------------------
(* transposeGameboard, diagonalizeGameboard, antiDiagonalizeGameboard.     *)

\* gameboard[0].map((col, i) => gameboard.map(row => row[i]))
transposeGameboard(gameboard) ==
    [i \in 1..Len(gameboard[1]) |-> [r \in 1..Len(gameboard) |-> gameboard[r][i]]]

\* The two loops decide which cells they push from the indices alone, so each
\* is modelled as the list of coordinates (j, k) it reads, in the order it
\* pushes them, and the reads of those coordinates.

\* diagonalRow looping while j < i for j <= i.
RECURSIVE diagonalRowShort(_, _, _, _)
diagonalRowShort(size, i, j, row) ==
    IF j >= i THEN row
    ELSE LET k == i - j
         IN  diagonalRowShort(size, i, j + 1,
                              IF j < size /\ k < size THEN Append(row, <<j, k>>) ELSE row)

\* The inner loop of diagonalizeGameboard from j on: the coordinates pushed so far.
RECURSIVE diagonalRow(_, _, _, _)
diagonalRow(size, i, j, row) ==
    IF j > i THEN row
    ELSE LET k == i - j
         IN  diagonalRow(size, i, j + 1,
                         IF j < size /\ k < size THEN Append(row, <<j, k>>) ELSE row)

\* antiDiagonalRow testing k > 0 for k >= 0.
RECURSIVE antiDiagonalRowPastZero(_, _, _, _)
antiDiagonalRowPastZero(size, i, j, row) ==
    IF j > i THEN row
    ELSE LET k == size - 1 - i + j
         IN  antiDiagonalRowPastZero(size, i, j + 1,
                                     IF j < size /\ k > 0 THEN Append(row, <<j, k>>) ELSE row)

\* The inner loop of antiDiagonalizeGameboard from j on: the coordinates pushed so far.
RECURSIVE antiDiagonalRow(_, _, _, _)
antiDiagonalRow(size, i, j, row) ==
    IF j > i THEN row
    ELSE LET k == size - 1 - i + j
         IN  antiDiagonalRow(size, i, j + 1,
                             IF j < size /\ k >= 0 THEN Append(row, <<j, k>>) ELSE row)

\* The outer loops: i from 0 to 2 * (size - 1).
diagonalCells(size) ==
    [n \in 1..(2 * (size - 1) + 1) |-> diagonalRow(size, n - 1, 0, <<>>)]
antiDiagonalCells(size) ==
    [n \in 1..(2 * (size - 1) + 1) |-> antiDiagonalRow(size, n - 1, 0, <<>>)]

\* The board sizes that occur, and the loops' coordinates for each of them.
BoardSizes == (1..MaxSize) \cup {TicTacToeSize, GomokuSize}
DiagonalCellsOf == [size \in BoardSizes |-> diagonalCells(size)]
AntiDiagonalCellsOf == [size \in BoardSizes |-> antiDiagonalCells(size)]

\* const cell = gameboard[j][k] for each coordinate of the lists.
readCells(gameboard, cells) ==
    [n \in 1..Len(cells) |->
        [m \in 1..Len(cells[n]) |-> gameboard[cells[n][m][1] + 1][cells[n][m][2] + 1]]]

diagonalizeGameboard(gameboard) ==
    readCells(gameboard, DiagonalCellsOf[Len(gameboard)])

\* antiDiagonalizeGameboard walking the board the way diagonalizeGameboard does.
antiDiagonalizeGameboardSameWay(gameboard) ==
    readCells(gameboard, DiagonalCellsOf[Len(gameboard)])

antiDiagonalizeGameboard(gameboard) ==
    readCells(gameboard, AntiDiagonalCellsOf[Len(gameboard)])

-----------------------------------------------------------------------------
(* concatGameboard, hasWinner, checkForWin.                                *)

\* One row as a string: each cell's mark, EMPTY_CELL_MARK for the empty cell.
\* concatRow adding nothing for an empty cell.
concatRowSkipEmpty(row) == SelectSeq(row, LAMBDA cell : cell # "")

concatRow(row) == [c \in 1..Len(row) |-> IF row[c] # "" THEN row[c] ELSE EMPTY_CELL_MARK]

\* concatRows forgetting the row break: the rows run into one another.
RECURSIVE concatRowsNoBreak(_, _, _)
concatRowsNoBreak(gameboard, r, concatenatedGameboard) ==
    IF r > Len(gameboard) THEN concatenatedGameboard
    ELSE concatRowsNoBreak(gameboard, r + 1,
                           concatenatedGameboard \o concatRow(gameboard[r]))

\* concatenatedGameboard after the rows from index r on have been appended.
RECURSIVE concatRows(_, _, _)
concatRows(gameboard, r, concatenatedGameboard) ==
    IF r > Len(gameboard) THEN concatenatedGameboard
    ELSE concatRows(gameboard, r + 1,
                    concatenatedGameboard \o concatRow(gameboard[r]) \o <<ROW_BREAK>>)

concatGameboard(gameboard) == concatRows(gameboard, 1, <<>>)

\* new RegExp(`${name}{${winCase}}`).test(str): winCase consecutive
\* occurrences of the one-character name somewhere in str.
RegExpRunTest(name, winCase, str) ==
    \E p \in 1..(Len(str) - winCase + 1) :
        \A q \in 0..(winCase - 1) : str[p + q] = name

hasWinner(concatenatedGameboard, g) ==
    \/ RegExpRunTest(g.players[1].name, g.winCase, concatenatedGameboard)
    \/ RegExpRunTest(g.players[2].name, g.winCase, concatenatedGameboard)

WinMessage(g, lastMove) == "Player " \o g.players[lastMove + 1].name \o " wins!"

\* game.players[lastMove].totalWins++
creditWin(g, lastMove) ==
    [g EXCEPT !.players[lastMove + 1].totalWins = g.players[lastMove + 1].totalWins + 1]

\* checkForWin taking the player at the turn index, flipped already, for the mover.
checkForWinByTurn(g) ==
    LET lastMove == g.turn
        won == [game |-> creditWin(g, lastMove), message |-> WinMessage(g, lastMove)]
    IN  IF hasWinner(concatGameboard(g.gameboard), g) THEN won
        ELSE IF hasWinner(concatGameboard(transposeGameboard(g.gameboard)), g) THEN won
        ELSE IF hasWinner(concatGameboard(diagonalizeGameboard(g.gameboard)), g) THEN won
        ELSE IF hasWinner(concatGameboard(antiDiagonalizeGameboard(g.gameboard)), g) THEN won
        ELSE IF g.remainingEmptyCells = 0 THEN [game |-> g, message |-> TiedMessage]
        ELSE [game |-> g, message |-> ""]

\* checkForWin looking at the empty-cell count before the runs.
checkForWinTieFirst(g) ==
    LET lastMove == IF g.turn = 0 THEN 1 ELSE 0
        won == [game |-> creditWin(g, lastMove), message |-> WinMessage(g, lastMove)]
    IN  IF g.remainingEmptyCells = 0 THEN [game |-> g, message |-> TiedMessage]
        ELSE IF hasWinner(concatGameboard(g.gameboard), g) THEN won
        ELSE IF hasWinner(concatGameboard(transposeGameboard(g.gameboard)), g) THEN won
        ELSE IF hasWinner(concatGameboard(diagonalizeGameboard(g.gameboard)), g) THEN won
        ELSE IF hasWinner(concatGameboard(antiDiagonalizeGameboard(g.gameboard)), g) THEN won
        ELSE [game |-> g, message |-> ""]

\* checkForWin crediting the win once for every transform that holds a run.
checkForWinEveryTransform(g) ==
    LET lastMove == IF g.turn = 0 THEN 1 ELSE 0
        credit(h, transformed) ==
            IF hasWinner(concatGameboard(transformed), g) THEN creditWin(h, lastMove) ELSE h
        g1 == credit(g, g.gameboard)
        g2 == credit(g1, transposeGameboard(g.gameboard))
        g3 == credit(g2, diagonalizeGameboard(g.gameboard))
        g4 == credit(g3, antiDiagonalizeGameboard(g.gameboard))
    IN  IF g4 # g THEN [game |-> g4, message |-> WinMessage(g, lastMove)]
        ELSE IF g.remainingEmptyCells = 0 THEN [game |-> g, message |-> TiedMessage]
        ELSE [game |-> g, message |-> ""]

\* checkForWin without the test of remainingEmptyCells.
checkForWinNoTie(g) ==
    LET lastMove == IF g.turn = 0 THEN 1 ELSE 0
        won == [game |-> creditWin(g, lastMove), message |-> WinMessage(g, lastMove)]
    IN  IF hasWinner(concatGameboard(g.gameboard), g) THEN won
        ELSE IF hasWinner(concatGameboard(transposeGameboard(g.gameboard)), g) THEN won
        ELSE IF hasWinner(concatGameboard(diagonalizeGameboard(g.gameboard)), g) THEN won
        ELSE IF hasWinner(concatGameboard(antiDiagonalizeGameboard(g.gameboard)), g) THEN won
        ELSE [game |-> g, message |-> ""]

\* The returned message and the Game object as checkForWin leaves it.
checkForWin(g) ==
    LET lastMove == IF g.turn = 0 THEN 1 ELSE 0
        won == [game |-> creditWin(g, lastMove), message |-> WinMessage(g, lastMove)]
    IN  IF hasWinner(concatGameboard(g.gameboard), g) THEN won
        ELSE IF hasWinner(concatGameboard(transposeGameboard(g.gameboard)), g) THEN won
        ELSE IF hasWinner(concatGameboard(diagonalizeGameboard(g.gameboard)), g) THEN won
        ELSE IF hasWinner(concatGameboard(antiDiagonalizeGameboard(g.gameboard)), g) THEN won
        ELSE IF g.remainingEmptyCells = 0 THEN [game |-> g, message |-> TiedMessage]
        ELSE [game |-> g, message |-> ""]

-----------------------------------------------------------------------------
(* The answers to the other two questions.                                 *)

GameTypeAnswers == {"1", "2", "3"}
ReplayAnswers == {"yes", "no", "y"}

-----------------------------------------------------------------------------
(* The callbacks of rl.question.                                           *)

Init ==
    /\ pc = "type"
    /\ game = NullGame
    /\ message = ""
    /\ inputError = ""
    /\ moves = 0

\* promptForGameType's callback, invalid game type: the question is asked again.
InvalidGameType(type) ==
    /\ pc = "type"
    /\ type # "1" /\ type # "2"
    /\ UNCHANGED vars

\* promptForGameType's callback, '1' or '2': initGame, then promptForInput.
ChooseGameType(type) ==
    /\ pc = "type"
    /\ type = "1" \/ type = "2"
    /\ game' = IF type = "1" THEN initGame(TIC_TAC_TOE) ELSE initGame(GOMOKU)
    /\ pc' = "input"
    /\ message' = ""
    /\ inputError' = ""
    /\ moves' = 0

\* if (input && !inputError), with only the input looked at.
inputAcceptedWhenParsed(validated) == ~validated.isNull

\* if (input && !inputError)
inputAccepted(validated) == ~validated.isNull /\ validated.error = ""

\* promptForInput's callback when the input is valid: updateGame, checkForWin,
\* then promptForReplay if there is a message, promptForInput if not.
AcceptInput(rawInput) ==
    /\ pc = "input"
    /\ \E validated \in {validateInput(rawInput, game.gameboard)} :
         /\ inputAccepted(validated)
         /\ inputError' = validated.error
         /\ \E checked \in {checkForWin(updateGame(validated.input, game))} :
              /\ game' = checked.game
              /\ message' = checked.message
              /\ pc' = IF checked.message # "" THEN "replay" ELSE "input"
    /\ moves' = moves + 1

\* promptForInput's callback when the input is not valid: the error is
\* printed and promptForInput(game) asks again.
RejectInput(rawInput) ==
    /\ pc = "input"
    /\ \E validated \in {validateInput(rawInput, game.gameboard)} :
         /\ ~inputAccepted(validated)
         /\ inputError' = validated.error
    /\ UNCHANGED <<pc, game, message, moves>>

\* promptForReplay's callback, 'yes', going on with the game that has ended.
ReplayYesSameGame(answer) ==
    /\ pc = "replay"
    /\ answer = "yes"
    /\ pc' = "input"
    /\ UNCHANGED <<game, message, inputError, moves>>

\* promptForReplay's callback, 'yes', handing the players of the game that
\* has ended to the new one.
ReplayYesSamePlayers(answer) ==
    /\ pc = "replay"
    /\ answer = "yes"
    /\ game' = [initGame(game.type) EXCEPT !.players = game.players]
    /\ pc' = "input"
    /\ message' = ""
    /\ inputError' = ""
    /\ moves' = 0

\* promptForReplay's callback, 'yes': a new game of the same type.
ReplayYes(answer) ==
    /\ pc = "replay"
    /\ answer = "yes"
    /\ game' = initGame(game.type)
    /\ pc' = "input"
    /\ message' = ""
    /\ inputError' = ""
    /\ moves' = 0

\* promptForReplay's callback, 'no': rl.close().
ReplayNo(answer) ==
    /\ pc = "replay"
    /\ answer = "no"
    /\ pc' = "closed"
    /\ UNCHANGED <<game, message, inputError, moves>>

\* promptForReplay's callback, anything else: the question is asked again.
ReplayAgain(answer) ==
    /\ pc = "replay"
    /\ answer # "yes" /\ answer # "no"
    /\ UNCHANGED vars

Next ==
    \/ \E type \in GameTypeAnswers : InvalidGameType(type)
    \/ \E type \in GameTypeAnswers : ChooseGameType(type)
    \/ \E rawInput \in RawInputs(game) : AcceptInput(rawInput)
    \/ \E rawInput \in RawInputs(game) : RejectInput(rawInput)
    \/ \E answer \in ReplayAnswers : ReplayYes(answer)
    \/ \E answer \in ReplayAnswers : ReplayNo(answer)
    \/ \E answer \in ReplayAnswers : ReplayAgain(answer)

Spec == Init /\ [][Next]_vars

-----------------------------------------------------------------------------
(* checkForWin on arbitrary boards: a board of any size up to MaxSize, any  *)
(* win case up to the size, holding up to MaxMarks marks anywhere.  The     *)
(* boards are built one mark at a time and checkForWin is called on each.   *)

BoardInit ==
    /\ pc = "board"
    /\ \E size \in 1..MaxSize : \E winCase \in 1..size :
         game = newGame("board", size, winCase)
    /\ message = ""
    /\ inputError = ""
    /\ moves = 0

\* The cells from (row, col) on, row by row, are empty.
EmptyFrom(gameboard, row, col) ==
    \A r \in row..(Len(gameboard) - 1) : \A c \in 0..(Len(gameboard) - 1) :
        (r > row \/ c >= col) => gameboard[r + 1][c + 1] = ""

\* The empty cell (row, col) gets the mark; checkForWin is called on the
\* resulting game (its message is kept, its change of the counters is not).
\* A board is filled row by row, so that it is built in one way only.
MarkCell(row, col, mark) ==
    /\ pc = "board"
    /\ moves < MaxMarks
    /\ validateInputOutOfBound([row |-> row, col |-> col], game.gameboard) = ""
    /\ validateEmptyCell([row |-> row, col |-> col], game.gameboard) = ""
    /\ EmptyFrom(game.gameboard, row, col)
    /\ \E marked \in {[game EXCEPT !.gameboard[row + 1][col + 1] = mark,
                                   !.remainingEmptyCells = @ - 1]} :
         /\ game' = marked
         /\ message' = checkForWin(marked).message
    /\ moves' = moves + 1
    /\ UNCHANGED <<pc, inputError>>

BoardNext ==
    \E row \in 0..(MaxSize - 1) : \E col \in 0..(MaxSize - 1) : \E mark \in {"X", "O"} :
        MarkCell(row, col, mark)

SpecBoards == BoardInit /\ [][BoardNext]_vars

-----------------------------------------------------------------------------
(* initGameboard and the Game object of initGame for any size, the sizes    *)
(* below 1 included: the Game object is built with the gameboard            *)
(* initGameboard returns, and marks are then put on it as above.            *)

CreateInit ==
    /\ pc = "create"
    /\ game = NullGame
    /\ message = ""
    /\ inputError = ""
    /\ moves = 0

\* const gameboard = initGameboard(size), then the Game object around it.  The
\* win case is one a board of that size admits (any, for a board of no cell).
\* Neither function has a throw statement: the object is built for every size.
CreateGame(size, winCase) ==
    /\ pc = "create"
    /\ size < 1 \/ winCase <= size
    /\ game' = newGame("board", size, winCase)
    /\ pc' = "board"
    /\ UNCHANGED <<message, inputError, moves>>

CreateNext ==
    \/ \E size \in (-1)..MaxSize : \E winCase \in 1..MaxSize : CreateGame(size, winCase)
    \/ BoardNext

SpecCreate == CreateInit /\ [][CreateNext]_vars

-----------------------------------------------------------------------------
(* What the claims speak of, stated on the board itself.                   *)

Size(g) == Len(g.gameboard)
Coordinates(g) == 0..(Size(g) - 1)
CellAt(g, row, col) == g.gameboard[row + 1][col + 1]

RowWise == <<0, 1>>
ColumnWise == <<1, 0>>
DownRight == <<1, 1>>
DownLeft == <<1, -1>>
Directions == {RowWise, ColumnWise, DownRight, DownLeft}

\* winCase cells holding mark, starting at (row, col) and stepping by d, all on the board.
RunFrom(g, mark, row, col, d) ==
    \A q \in 0..(g.winCase - 1) :
        /\ row + q * d[1] \in Coordinates(g)
        /\ col + q * d[2] \in Coordinates(g)
        /\ CellAt(g, row + q * d[1], col + q * d[2]) = mark

HasRunAlong(g, mark, d) ==
    \E row \in Coordinates(g) : \E col \in Coordinates(g) :
        CellAt(g, row, col) = mark /\ RunFrom(g, mark, row, col, d)

HasRun(g, mark) ==
    \E row \in Coordinates(g) : \E col \in Coordinates(g) :
        /\ CellAt(g, row, col) = mark
        /\ \E d \in Directions : RunFrom(g, mark, row, col, d)

WinMessages == {"Player X wins!", "Player O wins!"}

EmptyCells(g) ==
    {cell \in Coordinates(g) \X Coordinates(g) : CellAt(g, cell[1], cell[2]) = ""}

\* A game exists and a question about it is pending or it has ended.
InGame == pc \in {"input", "replay", "closed"}
\* The mark and the index of the player who made the latest accepted move.
MoverIndex == (moves - 1) % 2
MoverMark == IF MoverIndex = 0 THEN "X" ELSE "O"
OtherMark == IF MoverIndex = 0 THEN "O" ELSE "X"

-----------------------------------------------------------------------------
(* C1: on every board of size N and every win case K <= N, checkForWin      *)
(* reports a win exactly when some row, column or diagonal of either        *)
(* direction holds K consecutive cells with the same player's mark.         *)

C1_WinIffRun ==
    pc = "board" =>
        ((message \in WinMessages) <=> (HasRun(game, "X") \/ HasRun(game, "O")))

\* A board with K - 1 marks in a line stopped by the other mark, and no win.
C1_Witness_Blocked ==
    /\ pc = "board"
    /\ Size(game) = 3 /\ game.winCase = 3
    /\ CellAt(game, 0, 0) = "X" /\ CellAt(game, 0, 1) = "X" /\ CellAt(game, 0, 2) = "O"
    /\ message = ""

-----------------------------------------------------------------------------
(* C2: in a game, whenever checkForWin reports a win, the player it names   *)
(* and credits is the one who made the latest move, that player has a run   *)
(* of K marks and the other player has none.                                *)

C2_WinnerIsMover ==
    (InGame /\ message \in WinMessages) =>
        /\ message = "Player " \o MoverMark \o " wins!"
        /\ MoverIndex = 1 - game.turn
        /\ game.players[MoverIndex + 1].name = MoverMark
        /\ game.players[MoverIndex + 1].totalWins = 1
        /\ game.players[(1 - MoverIndex) + 1].totalWins = 0
        /\ HasRun(game, MoverMark)
        /\ ~HasRun(game, OtherMark)

\* O has won a game of tic-tac-toe.
C2_Witness_OWins ==
    /\ pc = "replay"
    /\ message = "Player O wins!"
    /\ game.turn = 0
    /\ HasRun(game, "O")

-----------------------------------------------------------------------------
(* C3: a winning move adds exactly 1 to the mover's win counter and leaves  *)
(* the other counter alone, however many of the four transforms hold a      *)
(* winning run; a move with no win changes no counter.                      *)

TotalWins(g, index) == g.players[index + 1].totalWins

\* The step is an accepted move of the game.
MoveAccepted == pc = "input" /\ moves' = moves + 1

C3_OneWinPerWinningMove ==
    [][MoveAccepted =>
          IF message' \in WinMessages
            THEN /\ TotalWins(game', game.turn) = TotalWins(game, game.turn) + 1
                 /\ TotalWins(game', 1 - game.turn) = TotalWins(game, 1 - game.turn)
            ELSE game'.players = game.players]_vars

\* X has won with a row and a column completed by the same move.
C3_Witness_TwoTransforms ==
    /\ pc = "replay"
    /\ message = "Player X wins!"
    /\ HasRunAlong(game, "X", RowWise)
    /\ HasRunAlong(game, "X", ColumnWise)
    /\ TotalWins(game, 0) = 1

-----------------------------------------------------------------------------
(* C4: in a game, remainingEmptyCells is the number of empty cells of the   *)
(* board; it is the number of cells less the number of accepted moves (one  *)
(* less per accepted move) and is never negative.                           *)

C4_RemainingIsEmptyCount ==
    InGame =>
        /\ game.remainingEmptyCells = Cardinality(EmptyCells(game))
        /\ game.remainingEmptyCells = Size(game) * Size(game) - moves
        /\ game.remainingEmptyCells >= 0

\* The board of a game has been filled.
C4_Witness_FullBoard ==
    /\ InGame
    /\ moves = Size(game) * Size(game)
    /\ game.remainingEmptyCells = 0

-----------------------------------------------------------------------------
(* C5: a rejected input changes nothing of the game (board, turn index,     *)
(* remainingEmptyCells, win counters) and the same player is asked again.   *)

\* The step is a promptForInput callback that printed an error.
InputRejected == pc = "input" /\ inputError' # ""

C5_RejectionChangesNothing ==
    [][InputRejected => /\ game' = game
                        /\ pc' = "input"
                        /\ moves' = moves
                        /\ message' = message]_vars

\* A move onto a taken cell has just been rejected in a game under way.
C5_Witness_Rejected ==
    /\ pc = "input"
    /\ inputError = CellTakenError
    /\ moves = 3
    /\ game.turn = 1
    /\ game.remainingEmptyCells = Size(game) * Size(game) - 3

-----------------------------------------------------------------------------
(* C6: the turn index is 0 at the start of a game and flips on every        *)
(* accepted move, the last one included: after n accepted moves it is       *)
(* n mod 2.                                                                 *)

C6_TurnIsMovesMod2 == InGame => game.turn = moves % 2

\* A game has ended on an odd move and the turn index has flipped to 1.
C6_Witness_FlippedAtEnd ==
    /\ pc = "replay"
    /\ moves % 2 = 1
    /\ game.turn = 1

-----------------------------------------------------------------------------
(* C7: after an accepted move, checkForWin reports a draw exactly when      *)
(* remainingEmptyCells is 0 and neither player has a run of K; with cells   *)
(* remaining and no run it reports nothing.                                 *)

NoRun(g) == ~HasRun(g, "X") /\ ~HasRun(g, "O")

C7_DrawIffFullAndNoRun ==
    (InGame /\ moves > 0) =>
        \A noRun \in {NoRun(game)} :
            /\ (message = TiedMessage) <=> (game.remainingEmptyCells = 0 /\ noRun)
            /\ (message = "") <=> (game.remainingEmptyCells > 0 /\ noRun)

\* A game has ended in a draw.
C7_Witness_Draw ==
    /\ pc = "replay"
    /\ message = TiedMessage
    /\ game.remainingEmptyCells = 0
    /\ NoRun(game)

-----------------------------------------------------------------------------
(* C8: once checkForWin has returned a win or a draw for a game, no move is *)
(* applied to that game any more: the game stays as it is until a new game  *)
(* replaces it, with an empty board, turn index 0 and remainingEmptyCells   *)
(* N * N, and only a game without a result takes a move.                    *)

IsFreshGame(g) ==
    /\ EmptyCells(g) = Coordinates(g) \X Coordinates(g)
    /\ g.turn = 0
    /\ g.remainingEmptyCells = Size(g) * Size(g)

C8_NoMoveAfterResult ==
    [][/\ MoveAccepted => message = ""
       /\ (InGame /\ message # "") =>
             \/ game' = game /\ moves' = moves /\ message' = message
             \/ /\ IsFreshGame(game') /\ Size(game') = Size(game)
                /\ moves' = 0 /\ message' = "" /\ pc' = "input"]_vars

\* A game has been won with cells still empty: a further move would find room.
C8_Witness_WonWithRoom ==
    /\ pc = "replay"
    /\ message \in WinMessages
    /\ game.remainingEmptyCells > 0
    /\ EmptyCells(game) # {}

-----------------------------------------------------------------------------
(* The lines by what was typed: the cell a line names, if it names one.     *)

\* Lines that are not two unsigned numbers with a comma between them.
MalformedLines ==
    { <<"a", "b", "c">>, <<>>, <<"0", " ", ",", "1">>,
      <<"0", ",", "1", ",", "2">>, <<"-", "1", ",", "0">> }

\* The pairs (row, col) that have a line, on the board or just past its edge.
NamedCells(g) ==
    PlayedCells(g.type) \cup {<<Size(g), 0>>, <<0, Size(g)>>}

LineOf(g, cell) ==
    IF cell \in PlayedCells(g.type) THEN CellLine(cell[1], cell[2]) ELSE MoveLine(cell[1], cell[2])

OnBoard(g, cell) == cell[1] \in Coordinates(g) /\ cell[2] \in Coordinates(g)

-----------------------------------------------------------------------------
(* C9: validateInput reports the first check that fails, malformed, then    *)
(* out of bound, then cell taken; it reads the cell only when both          *)
(* coordinates are on the board, and it accepts a line exactly when the     *)
(* line is well formed and names an empty cell of the board.                *)

C9_ChecksInOrder ==
    pc = "input" =>
        /\ \A rawInput \in MalformedLines :
             \A validated \in {validateInput(rawInput, game.gameboard)} :
                 /\ validated.error = MalformedError
                 /\ validated.reads = {}
                 /\ ~inputAccepted(validated)
        /\ \A cell \in NamedCells(game) :
             \A validated \in {validateInput(LineOf(game, cell), game.gameboard)} :
                 /\ validated.input = [row |-> cell[1], col |-> cell[2]]
                 /\ validated.reads \subseteq Coordinates(game) \X Coordinates(game)
                 /\ ~OnBoard(game, cell) =>
                        validated.error = OutOfBoundError /\ validated.reads = {}
                 /\ (OnBoard(game, cell) /\ CellAt(game, cell[1], cell[2]) # "") =>
                        validated.error = CellTakenError
                 /\ inputAccepted(validated) <=>
                        (OnBoard(game, cell) /\ CellAt(game, cell[1], cell[2]) = "")

\* A move onto a taken cell has been rejected as such.
C9_Witness_CellTaken ==
    /\ pc = "input"
    /\ inputError = CellTakenError
    /\ moves >= 1
    /\ EmptyCells(game) # Coordinates(game) \X Coordinates(game)

-----------------------------------------------------------------------------
(* C10: on a board of size N the line "N,0" is rejected as out of bound,    *)
(* the line "abc" as malformed and a move onto a taken cell as cell taken;  *)
(* the line "-1,0" is rejected as malformed, the sign failing the pattern   *)
(* before the bounds are looked at, although validateInputOutOfBound itself *)
(* rejects the parsed moves (-1, 0) and (N, 0) as out of bound.             *)

MinusOneZero == <<"-", "1", ",", "0">>
Abc == <<"a", "b", "c">>

TakenCellsRejected(g) ==
    \A cell \in PlayedCells(g.type) :
        CellAt(g, cell[1], cell[2]) # "" =>
            validateInput(LineOf(g, cell), g.gameboard).error = CellTakenError

C10_ErrorKinds ==
    pc = "input" =>
        /\ validateInput(MinusOneZero, game.gameboard).error = MalformedError
        /\ validateInputOutOfBound([row |-> -1, col |-> 0], game.gameboard) = OutOfBoundError
        /\ validateInputOutOfBound([row |-> Size(game), col |-> 0], game.gameboard)
               = OutOfBoundError
        /\ validateInput(MoveLine(Size(game), 0), game.gameboard).error = OutOfBoundError
        /\ validateInput(Abc, game.gameboard).error = MalformedError
        /\ TakenCellsRejected(game)

\* The claim as made: the line "-1,0" is rejected as out of bound too.
C10_AsClaimed ==
    pc = "input" =>
        /\ validateInput(MinusOneZero, game.gameboard).error = OutOfBoundError
        /\ validateInput(MoveLine(Size(game), 0), game.gameboard).error = OutOfBoundError
        /\ validateInput(Abc, game.gameboard).error = MalformedError
        /\ TakenCellsRejected(game)

\* A line past the board's edge has been rejected as out of bound.
C10_Witness_OutOfBound ==
    /\ pc = "input"
    /\ inputError = OutOfBoundError
    /\ validateInput(MoveLine(Size(game), 0), game.gameboard).error = inputError

-----------------------------------------------------------------------------
(* C11: creating a board with a size below 1 fails with an InvalidSize      *)
(* error, and no board and no game exist for such a size; every game that   *)
(* exists has a win case K with 1 <= K <= N.                                *)

\* The claim as made: a game that has been created has a board of size at
\* least 1 and a win case between 1 and the size.
C11_AsClaimed ==
    pc = "board" =>
        /\ Size(game) >= 1
        /\ game.winCase >= 1
        /\ game.winCase <= Size(game)

-----------------------------------------------------------------------------
(* C12: on the 3x3 board with K = 3, when X holds (0,0), (1,1), (2,2) and   *)
(* no other cell, checkForWin reports that X wins, and the match is found   *)
(* in what antiDiagonalizeGameboard returns, whose sequence 2 is the cells  *)
(* (0,0), (1,1), (2,2); what diagonalizeGameboard returns, the cells        *)
(* (r, d - r) for each index d, holds no match, nor do the rows or columns. *)

\* hasWinner finds a run in the concatenation of a transformed gameboard.
FoundIn(transformed, g) == hasWinner(concatGameboard(transformed), g)

MainDiagonal == {<<0, 0>>, <<1, 1>>, <<2, 2>>}

\* X holds the three cells of the main diagonal of the 3x3 board and no other.
XOnMainDiagonal(g) ==
    /\ Size(g) = 3
    /\ g.winCase = 3
    /\ \A cell \in Coordinates(g) \X Coordinates(g) :
           (CellAt(g, cell[1], cell[2]) = "X") <=> (cell \in MainDiagonal)

-----------------------------------------------------------------------------
(* C13: an accepted move at (row, col) sets exactly that cell, empty until  *)
(* then, to the mover's mark and leaves every other cell as it was; a cell  *)
(* that holds a mark keeps it for the rest of the game; the cell read right *)
(* after the move holds the placed mark.                                    *)

MarkedCells(g) == (Coordinates(g) \X Coordinates(g)) \ EmptyCells(g)

\* The cells whose content the step changes.
ChangedCells ==
    {cell \in Coordinates(game) \X Coordinates(game) :
        CellAt(game', cell[1], cell[2]) # CellAt(game, cell[1], cell[2])}

\* The step goes on with the same game: it is not the start of a new one.
SameGame == InGame /\ ~(pc = "replay" /\ pc' = "input")

C13_MoveSetsOneCell ==
    [][/\ MoveAccepted =>
            \E rawInput \in RawInputs(game) :
                \E validated \in {validateInput(rawInput, game.gameboard)} :
                    /\ inputAccepted(validated)
                    /\ CellAt(game, validated.input.row, validated.input.col) = ""
                    /\ CellAt(game', validated.input.row, validated.input.col)
                           = game.players[game.turn + 1].name
                    /\ ChangedCells = {<<validated.input.row, validated.input.col>>}
       /\ SameGame =>
            /\ Size(game') = Size(game)
            /\ \A cell \in MarkedCells(game) :
                   CellAt(game', cell[1], cell[2]) = CellAt(game, cell[1], cell[2])]_vars

\* Four moves into a game of gomoku, the four cells played hold their marks.
C13_Witness_FourMarksKept ==
    /\ pc = "input"
    /\ game.type = GOMOKU
    /\ moves = 4
    /\ Cardinality(MarkedCells(game)) = 4

-----------------------------------------------------------------------------
(* C14: when the move that fills the last empty cell also completes a run   *)
(* of K for the mover, checkForWin reports a win for the mover and adds 1   *)
(* to the mover's counter: it does not report a draw.                       *)

C14_LastCellWinIsWin ==
    (InGame /\ moves > 0 /\ game.remainingEmptyCells = 0) =>
        \A moverHasRun \in {HasRun(game, MoverMark)} :
            /\ moverHasRun =>
                   /\ message = "Player " \o MoverMark \o " wins!"
                   /\ TotalWins(game, MoverIndex) = 1
            /\ (message = TiedMessage) => ~moverHasRun

\* X's fifth mark has filled the board of tic-tac-toe and completed a run.
C14_Witness_WinOnLastCell ==
    /\ pc = "replay"
    /\ moves = TicTacToeSize * TicTacToeSize
    /\ EmptyCells(game) = {}
    /\ HasRun(game, "X")
    /\ message = "Player X wins!"

-----------------------------------------------------------------------------
(* C15: a run is counted inside one sequence only.  For the rows, the       *)
(* columns and the diagonals of either direction, hasWinner finds a run in  *)
(* the concatenation exactly when one of the sequences itself holds K       *)
(* consecutive cells with X or K consecutive cells with O: marks at the end *)
(* of a sequence and at the start of the next never combine, and the marks  *)
(* E and B of the encoding neither make nor hide a run.                     *)

\* K consecutive cells of the sequence hold the mark.
SeqHasRun(cells, mark, K) ==
    \E p \in 1..(Len(cells) - K + 1) : \A q \in 0..(K - 1) : cells[p + q] = mark

SomeSeqHasRun(sequences, K) ==
    \E n \in 1..Len(sequences) : \E mark \in {"X", "O"} : SeqHasRun(sequences[n], mark, K)

Transforms(gameboard) ==
    { gameboard,
      transposeGameboard(gameboard),
      diagonalizeGameboard(gameboard),
      antiDiagonalizeGameboard(gameboard) }

C15_RunsInsideOneSequence ==
    pc = "board" =>
        \A transformed \in Transforms(game.gameboard) :
            FoundIn(transformed, game) <=> SomeSeqHasRun(transformed, game.winCase)

\* With K = 2, X ends the first row and starts the second and holds no other
\* cell: no run, and no win.
C15_Witness_AcrossRows ==
    /\ pc = "board"
    /\ Size(game) = 3 /\ game.winCase = 2
    /\ CellAt(game, 0, 2) = "X" /\ CellAt(game, 1, 0) = "X"
    /\ Cardinality(MarkedCells(game)) = 2
    /\ message = ""

-----------------------------------------------------------------------------
(* C16: for a board of size N >= 1, antiDiagonalizeGameboard returns 2N - 1 *)
(* sequences, sequence d (0 <= d <= 2N - 2) being the cells (r, N-1-d+r)    *)
(* with both coordinates in 0..N-1, by increasing r, and no cell is read at *)
(* a column below 0 or above N - 1; diagonalizeGameboard returns 2N - 1     *)
(* sequences, sequence d being the cells (r, d - r) for r from              *)
(* max(0, d-N+1) to min(d, N-1).                                            *)

Max(a, b) == IF a >= b THEN a ELSE b
Min(a, b) == IF a <= b THEN a ELSE b

\* The rows r of a set by increasing r, each with the column it is given.
ByIncreasingRow(rows, column(_)) ==
    [m \in 1..Cardinality(rows) |->
        LET r == CHOOSE x \in rows : Cardinality({y \in rows : y < x}) = m - 1
        IN  <<r, column(r)>>]

StatedAntiDiagonal(N, d) ==
    LET column(r) == N - 1 - d + r
    IN  ByIncreasingRow({r \in 0..(N - 1) : column(r) \in 0..(N - 1)}, column)

StatedDiagonal(N, d) ==
    LET column(r) == d - r
    IN  ByIncreasingRow(Max(0, d - N + 1)..Min(d, N - 1), column)

\* The coordinates the two loops read are the stated ones, for every size that occurs.
CellsReadAsStated ==
    \A N \in BoardSizes :
        /\ Len(AntiDiagonalCellsOf[N]) = 2 * N - 1
        /\ Len(DiagonalCellsOf[N]) = 2 * N - 1
        /\ \A d \in 0..(2 * N - 2) :
               /\ AntiDiagonalCellsOf[N][d + 1] = StatedAntiDiagonal(N, d)
               /\ DiagonalCellsOf[N][d + 1] = StatedDiagonal(N, d)
               /\ \A m \in 1..Len(AntiDiagonalCellsOf[N][d + 1]) :
                      /\ AntiDiagonalCellsOf[N][d + 1][m][1] \in 0..(N - 1)
                      /\ AntiDiagonalCellsOf[N][d + 1][m][2] \in 0..(N - 1)
               /\ \A m \in 1..Len(DiagonalCellsOf[N][d + 1]) :
                      /\ DiagonalCellsOf[N][d + 1][m][1] \in 0..(N - 1)
                      /\ DiagonalCellsOf[N][d + 1][m][2] \in 0..(N - 1)

\* The stated coordinates of every sequence, for every size that occurs.
StatedAntiDiagonalsOf ==
    [N \in BoardSizes |-> [n \in 1..(2 * N - 1) |-> StatedAntiDiagonal(N, n - 1)]]
StatedDiagonalsOf ==
    [N \in BoardSizes |-> [n \in 1..(2 * N - 1) |-> StatedDiagonal(N, n - 1)]]

C16_DiagonalSequences ==
    (pc = "board" /\ Size(game) >= 1) =>
        /\ CellsReadAsStated
        /\ antiDiagonalizeGameboard(game.gameboard)
               = readCells(game.gameboard, StatedAntiDiagonalsOf[Size(game)])
        /\ diagonalizeGameboard(game.gameboard)
               = readCells(game.gameboard, StatedDiagonalsOf[Size(game)])

\* X in the top right corner and O in the bottom left one of a 3x3 board:
\* the first and the last sequence of antiDiagonalizeGameboard, and the two
\* ends of the middle sequence of diagonalizeGameboard.
C16_Witness_Corners ==
    /\ pc = "board"
    /\ Size(game) = 3
    /\ antiDiagonalizeGameboard(game.gameboard)[1] = <<"X">>
    /\ antiDiagonalizeGameboard(game.gameboard)[5] = <<"O">>
    /\ diagonalizeGameboard(game.gameboard)[3] = <<"X", "", "O">>

-----------------------------------------------------------------------------
(* C17: each of the four transforms (the rows, transposeGameboard,          *)
(* diagonalizeGameboard, antiDiagonalizeGameboard) regroups a board of size *)
(* N >= 1 (transposeGameboard reads row 0, which a board has from 1 on):    *)
(* every cell (r, c) is in its result exactly once, with the value it has   *)
(* on the board, and the board is the same after checkForWin has computed   *)
(* them.                                                                    *)

\* The number of places of the sequences from index n on that hold the mark.
RECURSIVE CountFrom(_, _, _)
CountFrom(sequences, n, mark) ==
    IF n > Len(sequences) THEN 0
    ELSE Len(SelectSeq(sequences[n], LAMBDA cell : cell = mark))
             + CountFrom(sequences, n + 1, mark)

\* The places <<n, m>> of the coordinate lists that name the cell.
PlacesOf(cells, cell) ==
    {place \in (1..Len(cells)) \X (0..Len(cells)) :
        /\ place[2] \in 1..Len(cells[place[1]])
        /\ cells[place[1]][place[2]] = cell}

\* Every cell of the board is named exactly once by the coordinates each of
\* the two loops reads, for every size that occurs.
EveryCellReadOnce ==
    \A N \in BoardSizes : \A cell \in (0..(N - 1)) \X (0..(N - 1)) :
        /\ Cardinality(PlacesOf(DiagonalCellsOf[N], cell)) = 1
        /\ Cardinality(PlacesOf(AntiDiagonalCellsOf[N], cell)) = 1

C17_TransformsRegroup ==
    (pc = "board" /\ Size(game) >= 1) =>
        /\ EveryCellReadOnce
        /\ \A counts \in {[mark \in {"X", "O", ""} |-> CountFrom(game.gameboard, 1, mark)]} :
               \A transformed \in Transforms(game.gameboard) :
                   \A mark \in {"X", "O", ""} :
                       CountFrom(transformed, 1, mark) = counts[mark]
        /\ \A transposed \in {transposeGameboard(game.gameboard)} :
               /\ Len(transposed) = Size(game)
               /\ \A cell \in Coordinates(game) \X Coordinates(game) :
                      /\ Len(transposed[cell[2] + 1]) = Size(game)
                      /\ transposed[cell[2] + 1][cell[1] + 1] = CellAt(game, cell[1], cell[2])
        /\ checkForWin(game).game.gameboard = game.gameboard

\* A 3x3 board with three marks that its transpose holds in other places.
C17_Witness_Regrouped ==
    /\ pc = "board"
    /\ Size(game) = 3
    /\ Cardinality(MarkedCells(game)) = 3
    /\ CellAt(game, 0, 1) = "X" /\ CellAt(game, 1, 0) = "O"
    /\ transposeGameboard(game.gameboard) # game.gameboard

-----------------------------------------------------------------------------
(* C18: a game on a board of size N with win case K ends, in a win or a     *)
(* draw, with the N * N-th accepted move at the latest: a game that awaits  *)
(* a move has seen fewer than N * N and has an empty cell left for the      *)
(* next; and no game ends before its (2K - 1)-th accepted move.             *)

C18_EndsWithinTheBoard ==
    InGame =>
        /\ moves <= Size(game) * Size(game)
        /\ pc = "input" =>
               /\ message = ""
               /\ moves < Size(game) * Size(game)
               /\ game.remainingEmptyCells > 0
        /\ moves = Size(game) * Size(game) => message # "" /\ pc # "input"
        /\ message # "" => moves >= 2 * game.winCase - 1

\* A game of gomoku has ended with its ninth move, the earliest it can.
C18_Witness_EarliestEnd ==
    /\ pc = "replay"
    /\ game.type = GOMOKU
    /\ moves = 2 * GomokuWinCase - 1
    /\ message \in WinMessages

\* A game of tic-tac-toe has ended with the move that filled the board.
C18_Witness_LatestEnd ==
    /\ pc = "replay"
    /\ game.type = TIC_TAC_TOE
    /\ moves = TicTacToeSize * TicTacToeSize
    /\ message = TiedMessage

-----------------------------------------------------------------------------
(* C19: between the moves of a game the marks on the board agree with the   *)
(* turn index: with turn = 0 the board holds as many X as O, with turn = 1  *)
(* one X more than O; and a cell holds X, O or nothing.                     *)

CellsWith(g, mark) ==
    {cell \in Coordinates(g) \X Coordinates(g) : CellAt(g, cell[1], cell[2]) = mark}

C19_MarksAgreeWithTurn ==
    InGame =>
        \A xs \in {Cardinality(CellsWith(game, "X"))} :
            \A os \in {Cardinality(CellsWith(game, "O"))} :
                /\ game.turn \in {0, 1}
                /\ game.turn = 0 => xs = os
                /\ game.turn = 1 => xs = os + 1
                /\ xs + os + Cardinality(CellsWith(game, "")) = Size(game) * Size(game)

\* O is to move in a game of gomoku with three X and two O on the board.
C19_Witness_OneMoreX ==
    /\ pc = "input"
    /\ game.type = GOMOKU
    /\ game.turn = 1
    /\ Cardinality(CellsWith(game, "X")) = 3
    /\ Cardinality(CellsWith(game, "O")) = 2

-----------------------------------------------------------------------------
(* C20: through all the games of a run of the program each player's         *)
(* totalWins is 0 or 1 and the two add up to 1 at most: they are 0 in a     *)
(* game that has not been won, the first game or a replay, since initGame   *)
(* calls initPlayers for every game, and the win of a game adds 1 once.     *)

C20_WinsNeverAccumulate ==
    InGame =>
        /\ TotalWins(game, 0) \in {0, 1}
        /\ TotalWins(game, 1) \in {0, 1}
        /\ TotalWins(game, 0) + TotalWins(game, 1) <= 1
        /\ message \notin WinMessages => TotalWins(game, 0) = 0 /\ TotalWins(game, 1) = 0
        /\ message \in WinMessages => TotalWins(game, 0) + TotalWins(game, 1) = 1

\* O has won a game of gomoku: the counters are 0 and 1 when the replay is asked.
C20_Witness_CountersAtReplay ==
    /\ pc = "replay"
    /\ game.type = GOMOKU
    /\ TotalWins(game, 0) = 0
    /\ TotalWins(game, 1) = 1

====
